---- MODULE Spec2Model ----
(***************************************************************************)
(* A model of pensieve's two store clients (pensieve/clients/pensieve.py,  *)
(* pensieve/clients/github.py) and of the command line interface that      *)
(* drives them (pensieve/cli.py).                                          *)
(*                                                                         *)
(* A text is a sequence of atoms.  An atom is a string: a single character *)
(* where the code looks at characters ("/", "'", ":", whitespace) and a    *)
(* whole fragment where it does not (a literal of a message, a word of a   *)
(* process's output).  The atom "<json>" in the output of a process stands *)
(* for the serialisation of the JSON document the process printed; the     *)
(* document itself travels beside the text.                                *)
(***************************************************************************)
EXTENDS Integers, Sequences, FiniteSets, TLC

VARIABLES
    pensieve,   \* the PensieveClient instance: host, path, agent
    github,     \* the GitHubClient instance: user, token
    pc,         \* position of the running process
    cli,        \* the command line invocation in progress, if any
    call,       \* the client operation in progress: client, op, arguments
    procs,      \* the subprocesses the operation has started, in order
    reqs,       \* the HTTP requests the operation has issued, in order
    proc,       \* the completed subprocess: returncode, stdout, stderr
    response,   \* the last HTTP response: status_code, body
    invoked,    \* what PensieveClient._invoke did: return or raise
    repos,      \* GitHubClient.list: the records gathered so far
    served,     \* GitHubClient.list: the bodies the API answered, in order
    calls,      \* the client operations started, in order
    dotfile,    \* the YAML document given to dotfile.load
    clients,    \* the clients dotfile.load returned, by store
    cache,      \* the cache file of the command line
    ret,        \* what the client operation did: return or raise
    printed,    \* what the command line printed to standard output
    exitCode    \* the exit code of the command line process (-1: running)

vars == <<pensieve, github, pc, cli, call, procs, reqs, proc,
          response, invoked, repos, served, calls, dotfile, clients, cache, ret, printed,
          exitCode>>

-----------------------------------------------------------------------------
(* Bounds of the model. *)

\* longest text (in atoms) a subprocess writes to stdout or to stderr
MaxOutLen == 2
\* most topics of one repository in a listing
MaxTopics == 2
\* longest text (in atoms) a subprocess writes to stderr
MaxErrLen == 1
\* most records on one page of the GitHub API
MaxPageLen == 2
\* most non-empty pages the GitHub API serves
MaxPages == 2

-----------------------------------------------------------------------------
(* Texts. *)

SeqsUpTo(S, n) == UNION {[1..k -> S] : k \in 0..n}

\* s in t
Contains(t, s) ==
    \E i \in 0..(Len(t) - Len(s)) : SubSeq(t, i + 1, i + Len(s)) = s

StartsWith(t, s) == Len(s) <= Len(t) /\ SubSeq(t, 1, Len(s)) = s

Whitespace == {" ", "\n"}

RECURSIVE LStrip(_)
LStrip(t) ==
    IF t # <<>> /\ Head(t) \in Whitespace THEN LStrip(Tail(t)) ELSE t

RECURSIVE RStrip(_)
RStrip(t) ==
    IF t # <<>> /\ t[Len(t)] \in Whitespace
    THEN RStrip(SubSeq(t, 1, Len(t) - 1))
    ELSE t

\* str.strip()
Strip(t) == RStrip(LStrip(t))

\* the position of the last occurrence of atom c in t, 0 if there is none
RECURSIVE LastIndex(_, _)
LastIndex(t, c) ==
    IF t = <<>> THEN 0
    ELSE IF t[Len(t)] = c THEN Len(t)
    ELSE LastIndex(SubSeq(t, 1, Len(t) - 1), c)

\* the number of occurrences of atom c in t
RECURSIVE Count(_, _)
Count(t, c) ==
    IF t = <<>> THEN 0
    ELSE (IF Head(t) = c THEN 1 ELSE 0) + Count(Tail(t), c)

\* str.split(c): the segments of t between the occurrences of atom c
RECURSIVE Split(_, _)
Split(t, c) ==
    IF Count(t, c) = 0 THEN <<t>>
    ELSE LET i == LastIndex(t, c)
         IN  Split(SubSeq(t, 1, i - 1), c) \o <<SubSeq(t, i + 1, Len(t))>>

\* os.path.join(a, b) on a POSIX system
PathJoin2(a, b) ==
    IF b # <<>> /\ Head(b) = "/" THEN b
    ELSE IF a = <<>> \/ a[Len(a)] = "/" THEN a \o b
    ELSE a \o <<"/">> \o b

\* os.path.join(a, b, c)
OsPathJoin(a, b, c) == PathJoin2(PathJoin2(a, b), c)

\* json.dumps of a string: quotes and backslashes are escaped
RECURSIVE JsonEscape(_)
JsonEscape(t) ==
    IF t = <<>> THEN <<>>
    ELSE (IF Head(t) \in {"\"", "\\"} THEN <<"\\", Head(t)>> ELSE <<Head(t)>>)
         \o JsonEscape(Tail(t))

JsonString(t) == <<"\"">> \o JsonEscape(t) \o <<"\"">>

\* json.dumps of a dict of strings, given as a sequence of <<key, value>>
RECURSIVE JsonItems(_)
JsonItems(items) ==
    IF items = <<>> THEN <<>>
    ELSE JsonString(Head(items)[1]) \o <<": ">> \o JsonString(Head(items)[2])
         \o (IF Len(items) > 1 THEN <<", ">> ELSE <<>>)
         \o JsonItems(Tail(items))

JsonObject(items) == <<"{">> \o JsonItems(items) \o <<"}">>

\* str(b) of a bytes object b that holds a double quote: b'...' with the
\* single quotes and the backslashes of b escaped
RECURSIVE BytesEscape(_)
BytesEscape(t) ==
    IF t = <<>> THEN <<>>
    ELSE (IF Head(t) \in {"'", "\\"} THEN <<"\\", Head(t)>> ELSE <<Head(t)>>)
         \o BytesEscape(Tail(t))

BytesRepr(t) == <<"b'">> \o BytesEscape(t) \o <<"'">>

-----------------------------------------------------------------------------
(* Values. *)

\* Python's None where a text is expected
None == <<"<None>">>

\* what a call did.  kind: "none" (nothing yet), "return" or "raise";
\* exc and msg: the exception raised and str() of it;
\* data: the value _invoke returns; value: the list a list() returns
NoData == [kind |-> "absent", entries |-> <<>>]
NoResult == [kind |-> "none", exc |-> "", msg |-> <<>>, data |-> NoData,
             value |-> <<>>]
Raise(exc, msg) == [NoResult EXCEPT !.kind = "raise", !.exc = exc, !.msg = msg]
ReturnData(d) == [NoResult EXCEPT !.kind = "return", !.data = d]
ReturnValue(v) == [NoResult EXCEPT !.kind = "return", !.value = v]
ReturnNone == [NoResult EXCEPT !.kind = "return"]

\* exceptions.Error and its subclasses (exceptions.py)
ErrorKinds == {"Error", "ClientError", "CloneError"}

\* A JSON document as the agent protocol reads it.  isObject: the document is
\* an object; error.kind: the "error" key is absent, null or an object, with
\* or without "code" and "msg"; data.kind: the "data" key is absent, null or
\* a mapping, whose entries are kept in the mapping's iteration order.
NoError == [kind |-> "absent", hasCode |-> FALSE, code |-> 0,
            hasMsg |-> FALSE, msg |-> <<>>]
ErrorObject(code, msg) ==
    [kind |-> "object", hasCode |-> TRUE, code |-> code,
     hasMsg |-> TRUE, msg |-> msg]
DataMap(entries) == [kind |-> "map", entries |-> entries]
Document(error, data) == [isObject |-> TRUE, error |-> error, data |-> data]
NoDocument == [isObject |-> FALSE, error |-> NoError, data |-> NoData]

\* the topics of the model, as texts of characters
TopicSet == {<<"a">>, <<"a", "b">>, <<"b">>}
TopicLists == SeqsUpTo(TopicSet, MaxTopics)
AgentRepoNames == {<<"r">>, <<"q">>}
Descriptions == {None, <<"d">>}

\* sequences of distinct names
NameOrders ==
    {ns \in SeqsUpTo(AgentRepoNames, Cardinality(AgentRepoNames)) :
        \A i, j \in 1..Len(ns) : i # j => ns[i] # ns[j]}

\* the mappings name -> {description, topics} an agent can list
Listings ==
    UNION {
        {[i \in 1..Len(ns) |->
            [name |-> ns[i], description |-> ds[i], topics |-> ts[i]]] :
            ds \in [1..Len(ns) -> Descriptions],
            ts \in [1..Len(ns) -> TopicLists]} :
        ns \in NameOrders}

AgentMessages == {<<"boom">>}

\* documents of every shape the code's subscripts can meet
ShapeDocuments ==
    {Document(ErrorObject(c, m), DataMap(<<>>)) :
        c \in {0, 1, 2}, m \in AgentMessages}
    \cup {Document([ErrorObject(c, <<>>) EXCEPT !.hasMsg = FALSE], DataMap(<<>>)) :
            c \in {0, 1}}
    \cup {Document(NoError, DataMap(<<>>)),
          Document([NoError EXCEPT !.kind = "null"], DataMap(<<>>)),
          Document([NoError EXCEPT !.kind = "object"], DataMap(<<>>)),
          Document(ErrorObject(0, <<>>), NoData),
          Document(ErrorObject(0, <<>>), [NoData EXCEPT !.kind = "null"]),
          Document(ErrorObject(1, <<"boom">>), NoData),
          NoDocument}

\* a listing as a well-formed success response
ListingDocuments == {Document(ErrorObject(0, <<>>), DataMap(l)) : l \in Listings}

\* the output of a finished subprocess
NoProc == [returncode |-> 0, stdout |-> <<>>, stderr |-> <<>>, doc |-> NoDocument]
ReturnCodes == {0, 1, 255}
NoSuchFile == "No such file"
OutTexts == SeqsUpTo({"\n", "oops", NoSuchFile}, MaxOutLen)
ErrTexts == SeqsUpTo({"\n", "denied", NoSuchFile}, MaxErrLen)

\* what the ssh transport can answer to a command
SshOutcomes(command) ==
    {[returncode |-> rc, stdout |-> t, stderr |-> e, doc |-> NoDocument] :
        rc \in ReturnCodes, t \in OutTexts, e \in ErrTexts}
    \cup {[returncode |-> rc, stdout |-> <<"<json>", "\n">>, stderr |-> e, doc |-> d] :
        rc \in ReturnCodes, d \in ShapeDocuments, e \in ErrTexts}
    \cup (IF command = <<"list">>
          THEN {[returncode |-> 0, stdout |-> <<"<json>", "\n">>, stderr |-> <<>>,
                 doc |-> d] : d \in ListingDocuments}
          ELSE {})

-----------------------------------------------------------------------------
(* PensieveClient (clients/pensieve.py). *)

\* CONNECTION_TIMEOUT, pensieve.py line 18: 5 seconds by default
CONNECTION_TIMEOUT == <<"5">>
\* SSH_OPTIONS.split(), pensieve.py line 21: no option by default
SSH_OPTIONS == <<>>

SshScheme == <<"ssh", ":", "//">>

\* PensieveClient.__init__
NewPensieveClient(host, path, agent) ==
    [host |-> IF StartsWith(host, SshScheme) THEN host ELSE SshScheme \o host,
     path |-> path,
     agent |-> agent]

\* payload = {"command": command, "data": data}, data None becoming {}
Payload(command, data) ==
    [command |-> command, data |-> IF data.given THEN data.items ELSE <<>>]

\* json.dumps(payload).encode()
JsonDumps(payload) ==
    <<"{", "\"command\"", ": ">> \o JsonString(payload.command)
    \o <<", ", "\"data\"", ": ">> \o JsonObject(payload.data) \o <<"}">>

\* host.rsplit(":", 1)
RSplit(host) ==
    LET i == LastIndex(host, ":")
    IN  IF i = 0 THEN <<host>>
        ELSE <<SubSeq(host, 1, i - 1), SubSeq(host, i + 1, Len(host))>>

\* the ssh command line of _invoke
SshCommand(self) ==
    LET parts == RSplit(self.host)
        server == parts[1]
        port == parts[2]
        remote_command == <<"cd ">> \o self.path \o <<" && ">> \o self.agent
    IN  <<<<"ssh">>, <<"-o">>, <<"ConnectTimeout=">> \o CONNECTION_TIMEOUT>>
        \o SSH_OPTIONS
        \o <<<<"-p">>, port, server,
             <<"bash -c \"">> \o remote_command \o <<"\"">>>>

\* a subprocess: its command line, working directory and standard input
Process(argv, cwd, input) == [argv |-> argv, cwd |-> cwd, input |-> input]

\* the subprocesses one _invoke starts: subprocess.run(ssh_command, input=...)
InvokeRetries(self, command, data) ==
    LET p == Process(SshCommand(self), None, JsonDumps(Payload(command, data)))
    IN  <<p, p>>
InvokeProcesses(self, command, data) ==
    <<Process(SshCommand(self), None, JsonDumps(Payload(command, data)))>>

\* if proc.returncode: ...   if response["error"]["code"]: ...
TruthyOnlyOne(n) == n = 1
Truthy(n) == n # 0

\* the message of the decode error
DecodeErrorPlain(payload_as_json, result) ==
    <<"Problem decoding when communicating JSON over SSH.">>
    \o <<"\nSent: ">> \o payload_as_json
    \o <<"\nReceived: ">>
DecodeError(payload_as_json, result) ==
    <<"Problem decoding when communicating JSON over SSH.">>
    \o <<"\nSent: ">> \o BytesRepr(payload_as_json)
    \o <<"\nReceived: ">> \o result

\* the message of the error of a failed ssh process
ConnectionError(self, result, result_err) ==
    IF Contains(result, <<NoSuchFile>>)
    THEN <<"The server has no pensieve \"">> \o self.path \o <<"\".">>
    ELSE <<"Connection failed with error: ">> \o result \o result_err

\* response["error"]["code"], response["error"]["msg"], response["data"]
Respond(r) ==
    IF ~r.isObject THEN Raise("TypeError", <<"list indices must be integers">>)
    ELSE IF r.error.kind = "absent" THEN Raise("KeyError", <<"'error'">>)
    ELSE IF r.error.kind = "null"
        THEN Raise("TypeError", <<"'NoneType' object is not subscriptable">>)
    ELSE IF ~r.error.hasCode THEN Raise("KeyError", <<"'code'">>)
    ELSE IF Truthy(r.error.code)
        THEN IF r.error.hasMsg THEN Raise("ClientError", r.error.msg)
             ELSE Raise("KeyError", <<"'msg'">>)
    ELSE IF r.data.kind = "absent" THEN Raise("KeyError", <<"'data'">>)
    ELSE ReturnData(r.data)

\* PensieveClient._invoke, from the exit of the ssh process on
Invoke(self, command, data, p) ==
    LET payload_as_json == JsonDumps(Payload(command, data))
        result == Strip(p.stdout)
        result_err == Strip(p.stderr)
    IN  IF Truthy(p.returncode)
        THEN Raise("ClientError", ConnectionError(self, result, result_err))
        ELSE IF result # <<"<json>">>
        THEN Raise("ClientError", DecodeError(payload_as_json, result))
        ELSE Respond(p.doc)

\* a RepositoryMetadata record (clients/abc.py)
RepositoryMetadata(name, description, topics) ==
    [name |-> name, description |-> description, topics |-> topics]

\* the code point of a character (of the first one, for an atom of several)
Ord(c) ==
    CASE c = "/" -> 47 [] c = ":" -> 58 [] c = "a" -> 97 [] c = "b" -> 98
      [] c = "c" -> 99 [] c = "github" -> 103 [] c = "home" -> 104
      [] c = "o" -> 111 [] c = "old" -> 111 [] c = "q" -> 113 [] c = "r" -> 114
      [] c = "u" -> 117 [] OTHER -> 0

\* s < t for two strings: by code points, a proper prefix first
RECURSIVE TextLess(_, _)
TextLess(s, t) ==
    IF t = <<>> THEN FALSE
    ELSE IF s = <<>> THEN TRUE
    ELSE IF Ord(Head(s)) # Ord(Head(t)) THEN Ord(Head(s)) < Ord(Head(t))
    ELSE TextLess(Tail(s), Tail(t))

\* x put into the sorted list s, after the elements that are not greater
RECURSIVE Insert(_, _)
Insert(x, s) ==
    IF s = <<>> THEN <<x>>
    ELSE IF TextLess(x, Head(s)) THEN <<x>> \o s
    ELSE <<Head(s)>> \o Insert(x, Tail(s))

\* x put into the sorted list s unless it is there already
RECURSIVE InsertNew(_, _)
InsertNew(x, s) ==
    IF s = <<>> THEN <<x>>
    ELSE IF x = Head(s) THEN s
    ELSE IF TextLess(x, Head(s)) THEN <<x>> \o s
    ELSE <<Head(s)>> \o InsertNew(x, Tail(s))

RECURSIVE SortedSet(_)
SortedSet(s) ==
    IF s = <<>> THEN <<>>
    ELSE InsertNew(s[Len(s)], SortedSet(SubSeq(s, 1, Len(s) - 1)))

\* sorted(s) of a list of strings
RECURSIVE Sorted(_)
Sorted(s) ==
    IF s = <<>> THEN <<>>
    ELSE Insert(s[Len(s)], Sorted(SubSeq(s, 1, Len(s) - 1)))

\* PensieveClient.new, from the return of _invoke on
PensieveNewResult(inv) == IF inv.kind = "raise" THEN inv ELSE ReturnNone

\* PensieveClient.list, from the return of _invoke on
PensieveListResult(inv) ==
    IF inv.kind = "raise" THEN inv
    ELSE IF inv.data.kind # "map"
    THEN Raise("AttributeError", <<"'NoneType' object has no attribute 'items'">>)
    ELSE ReturnValue(
            [i \in 1..Len(inv.data.entries) |->
                LET meta == inv.data.entries[i]
                IN  RepositoryMetadata(meta.name, meta.description,
                                       Sorted(meta.topics))])

\* the git command line of PensieveClient.clone
PensieveCloneTemplate(self, repo_name) ==
    <<<<"git">>, <<"clone">>,
      self.host \o self.path \o <<"/">> \o repo_name \o <<"/", "repo.git">>,
      repo_name>>
PensieveCloneCommand(self, repo_name) ==
    <<<<"git">>, <<"clone">>,
      self.host \o OsPathJoin(self.path, repo_name, <<"repo.git">>),
      repo_name>>

\* the subprocesses PensieveClient.clone starts
PensieveCloneProcesses(self, repo_name, cwd) ==
    <<Process(PensieveCloneCommand(self, repo_name), cwd, <<>>)>>

\* PensieveClient.clone, from the exit of git on
PensieveCloneAnonymous(repo_name, p) ==
    IF Truthy(p.returncode)
    THEN Raise("ClientError", <<"Could not clone the repository.">>)
    ELSE ReturnNone
PensieveCloneResult(repo_name, p) ==
    IF Truthy(p.returncode)
    THEN Raise("ClientError",
               <<"Could not clone the repository \"">> \o repo_name
               \o <<"\" from the server.">>)
    ELSE ReturnNone

-----------------------------------------------------------------------------
(* GitHubClient (clients/github.py). *)

\* the body of an HTTP response.  kind: "notjson", "object" or "list";
\* an object has or lacks "message" and "errors"; a list holds repositories
NoErrors == [kind |-> "absent", items |-> <<>>]
ErrorList(items) == [kind |-> "list", items |-> items]
Body(kind, hasMessage, message, errors, items) ==
    [kind |-> kind, hasMessage |-> hasMessage, message |-> message,
     errors |-> errors, items |-> items]
NoBody == Body("notjson", FALSE, <<>>, NoErrors, <<>>)
ListBody(items) == Body("list", FALSE, <<>>, NoErrors, items)
NoHttpResponse == [status_code |-> 0, body |-> NoBody]

\* the repositories the API can list: full_name, description, topics, and
\* permissions.admin
ApiRepos ==
    {[full_name |-> <<"u", "/", "r">>, description |-> None,
      topics |-> <<<<"b">>, <<"a">>>>, admin |-> TRUE],
     [full_name |-> <<"o", "/", "r">>, description |-> <<"d">>,
      topics |-> <<>>, admin |-> FALSE],
     [full_name |-> <<"o", "/", "q">>, description |-> <<"d">>,
      topics |-> <<<<"a">>>>, admin |-> TRUE]}

\* a page: repositories of the API, none of them twice
Pages ==
    {p \in SeqsUpTo(ApiRepos, MaxPageLen) :
        \A i, j \in 1..Len(p) : i # j => p[i] # p[j]}

StatusCodes == {200, 201, 422}

\* the bodies the API can answer a creation with
PostBodies ==
    {Body("object", TRUE, <<"Validation Failed">>, ErrorList(<<<<"exists">>>>), <<>>),
     Body("object", TRUE, <<"Not Found">>, NoErrors, <<>>),
     Body("object", TRUE, <<"Not Found">>, ErrorList(<<>>), <<>>),
     Body("object", FALSE, <<>>, ErrorList(<<<<"exists">>>>), <<>>),
     ListBody(<<>>),
     NoBody}

\* the bodies the API can answer a listing with, non-empty pages left to serve
GetBodies(pagesLeft) ==
    {ListBody(<<>>),
     Body("object", FALSE, <<>>, NoErrors, <<>>),
     Body("object", TRUE, <<"Bad credentials">>, NoErrors, <<>>),
     NoBody}
    \cup (IF pagesLeft > 0 THEN {ListBody(p) : p \in Pages} ELSE {})

\* _make_error_message(result.json())
MakeErrorMessage(json) ==
    IF json.kind = "notjson" THEN Raise("JSONDecodeError", <<"Expecting value">>)
    ELSE IF json.kind = "list"
        THEN Raise("TypeError", <<"list indices must be integers">>)
    ELSE IF ~json.hasMessage THEN Raise("KeyError", <<"'message'">>)
    ELSE IF json.errors.kind = "absent" THEN Raise("KeyError", <<"'errors'">>)
    ELSE IF json.errors.items = <<>>
        THEN Raise("IndexError", <<"list index out of range">>)
    ELSE Raise("ClientError", json.message \o <<" ">> \o json.errors.items[1])

\* _extract_repo_info_from_json
ExtractRepoInfoFromJson(json) ==
    RepositoryMetadata(json.full_name, json.description, json.topics)

\* an HTTP request: method, url, auth, JSON body and query parameters
NoPrivate == [given |-> FALSE, value |-> FALSE]
RequestAnonymous(method, url, auth, name, private, page) ==
    [method |-> method, url |-> url, auth |-> <<>>,
     json |-> [name |-> name, private |-> private],
     params |-> [per_page |-> IF page = 0 THEN 0 ELSE 100, page |-> page]]
Request(method, url, auth, name, private, page) ==
    [method |-> method, url |-> url, auth |-> auth,
     json |-> [name |-> name, private |-> private],
     params |-> [per_page |-> IF page = 0 THEN 0 ELSE 100, page |-> page]]

ApiRoot == <<"https://api.github.com">>

\* the url of _create_new_user_repository
UserReposUrl == ApiRoot \o <<"/", "user", "/", "repos">>

\* the url of _create_new_org_repository
OrgReposUrl(org) == ApiRoot \o <<"/", "orgs", "/">> \o org \o <<"/", "repos">>

\* GitHubClient.new up to its request: the requests it issues, or the
\* ValueError of an unpacking that does not find two segments
GitHubNewAlwaysUser(self, full_name, private) ==
    LET parts == Split(full_name, "/")
        flag == IF private.given THEN private.value ELSE TRUE
    IN  IF Len(parts) # 2
        THEN [reqs |-> <<>>, ret |-> Raise("ValueError", <<"unpack">>)]
        ELSE [reqs |-> <<Request("POST", UserReposUrl,
                                 <<self.user, self.token>>, parts[2], flag, 0)>>,
              ret |-> NoResult]
GitHubNewRequests(self, full_name, private) ==
    LET parts == Split(full_name, "/")
        flag == IF private.given THEN private.value ELSE TRUE
    IN  IF Len(parts) # 2
        THEN [reqs |-> <<>>, ret |-> Raise("ValueError", <<"unpack">>)]
        ELSE [reqs |-> <<Request("POST",
                                 IF parts[1] = self.user THEN UserReposUrl
                                 ELSE OrgReposUrl(parts[1]),
                                 <<self.user, self.token>>, parts[2], flag, 0)>>,
              ret |-> NoResult]

\* _create_new_user_repository and _create_new_org_repository, from the
\* response on
GitHubNewResult(result) ==
    IF result.status_code # 201 THEN MakeErrorMessage(result.body)
    ELSE ReturnNone

\* the git command line of GitHubClient.clone
GitHubCloneCommand(full_name) ==
    <<<<"git">>, <<"clone">>, <<"ssh", ":", "//", "git@github.com", "/">> \o full_name>>

\* GitHubClient.clone, from the exit of git on
GitHubCloneResult(p) ==
    IF Truthy(p.returncode) THEN Raise("ClientError", p.stdout) ELSE ReturnNone

\* the request of GitHubClient.list for a page
GitHubListRequestFromZero(self, page) ==
    Request("GET", UserReposUrl, <<self.user, self.token>>, <<>>, FALSE, page - 1)
GitHubListRequest(self, page) ==
    Request("GET", UserReposUrl, <<self.user, self.token>>, <<>>, FALSE, page)

\* the records of a page that GitHubClient.list keeps
ReposOnPageUnfiltered(items) ==
    [i \in 1..Len(items) |-> ExtractRepoInfoFromJson(items[i])]
RECURSIVE ReposOnPage(_)
ReposOnPage(items) ==
    IF items = <<>> THEN <<>>
    ELSE (IF Head(items).admin THEN <<ExtractRepoInfoFromJson(Head(items))>>
          ELSE <<>>)
         \o ReposOnPage(Tail(items))

\* not results.json(): an empty list or an empty object
IsEmptyBody(b) ==
    \/ b.kind = "list" /\ b.items = <<>>
    \/ b.kind = "object" /\ ~b.hasMessage /\ b.errors.kind = "absent"

\* one turn of the loop of GitHubClient.list, from the response on: the
\* records gathered, what list() did if it ended, and whether it goes on
GitHubListKeepsLastPage(gathered, b) ==
    IF b.kind = "notjson"
    THEN [repos |-> gathered, more |-> FALSE,
          ret |-> Raise("JSONDecodeError", <<"Expecting value">>)]
    ELSE IF IsEmptyBody(b)
    THEN [repos |-> gathered, more |-> FALSE, ret |-> ReturnValue(gathered)]
    ELSE IF b.kind = "object"
    THEN [repos |-> gathered, more |-> FALSE,
          ret |-> Raise("TypeError", <<"string indices must be integers">>)]
    ELSE [repos |-> ReposOnPage(b.items), more |-> TRUE, ret |-> NoResult]
GitHubListStep(gathered, b) ==
    IF b.kind = "notjson"
    THEN [repos |-> gathered, more |-> FALSE,
          ret |-> Raise("JSONDecodeError", <<"Expecting value">>)]
    ELSE IF IsEmptyBody(b)
    THEN [repos |-> gathered, more |-> FALSE, ret |-> ReturnValue(gathered)]
    ELSE IF b.kind = "object"
    THEN [repos |-> gathered, more |-> FALSE,
          ret |-> Raise("TypeError", <<"string indices must be integers">>)]
    ELSE [repos |-> gathered \o ReposOnPage(b.items), more |-> TRUE,
          ret |-> NoResult]

-----------------------------------------------------------------------------
(* The command line interface (cli.py). *)

_RESET == "\\u001b[0m"

\* bad(message): red, unless PENSIEVE_COLOR is "no"
Bad(message, color) ==
    IF color THEN <<"\\u001b[31m">> \o message \o <<_RESET>> ELSE message

\* good(message): green, unless PENSIEVE_COLOR is "no"
Good(message, color) ==
    IF color THEN <<"\\u001b[32m">> \o message \o <<_RESET>> ELSE message

\* the message cmd_clone prints after a clone
ClonedMessage(store_name, full_name) ==
    <<"Cloned repository \"", store_name, ":">> \o full_name \o <<"\".">>

\* cmd_clone, from the return of client.clone on: what is printed and the
\* exit code of the process (an exception that is no ClientError ends the
\* process with a traceback and exit code 1)
CmdCloneAlwaysGood(c, r) ==
    [printed |-> <<Good(ClonedMessage(c.store, c.full_name), c.color)>>,
     exitCode |-> 0]
CmdCloneEnd(c, r) ==
    IF r.kind = "raise" /\ r.exc \in {"ClientError", "CloneError"}
    THEN [printed |-> <<Bad(r.msg, c.color)>>, exitCode |-> 1]
    ELSE IF r.kind = "raise"
    THEN [printed |-> <<>>, exitCode |-> 1]
    ELSE [printed |-> <<Good(ClonedMessage(c.store, c.full_name), c.color)>>,
          exitCode |-> 0]

-----------------------------------------------------------------------------
(* The dotfile (dotfile.py). *)

\* GitHubClient.__init__
NewGitHubClient(user, token) == [user |-> user, token |-> token]

\* What yaml.load makes of the dotfile.  kind: the text is not YAML, or is an
\* empty document (None), or a mapping; hasStores: the mapping has the key
\* "stores"; stores: its entries, in the order of the document.  A store's
\* section has or lacks "type" and holds its other keys as items.
NoDotfile == [kind |-> "none", hasStores |-> FALSE, stores |-> <<>>]
Undecodable == [NoDotfile EXCEPT !.kind = "undecodable"]
EmptyDocument == [NoDotfile EXCEPT !.kind = "null"]
Mapping(hasStores, stores) ==
    [kind |-> "map", hasStores |-> hasStores, stores |-> stores]
StoreConfig(hasType, type, items) ==
    [hasType |-> hasType, type |-> type, items |-> items]
Entry(store, config) == [store |-> store, config |-> config]

\* the dict of clients: one entry a store, in the order of insertion
NoClients == <<>>
ClientEntry(store, type, client) ==
    [store |-> store, type |-> type, client |-> client]

\* the keys of a section, and the value of one of them
Keys(items) == {items[i][1] : i \in 1..Len(items)}
Value(items, key) ==
    items[CHOOSE i \in 1..Len(items) : items[i][1] = key][2]

\* invalid_store_msg
InvalidStoreMsg(store) == <<"Invalid \"", store, "\" definition in dotfile. ">>

\* _load_client_from_store_config(store, store_config): the client, or the
\* error raised
LoadClientFromStoreConfig(store, store_config) ==
    IF ~store_config.hasType
    THEN [ret |-> Raise("Error", InvalidStoreMsg(store)
                                 \o <<"Missing a \"type\" key.">>),
          client |-> ClientEntry(store, "", <<>>)]
    ELSE IF store_config.type \notin {"github", "pensieve"}
    THEN [ret |-> Raise("Error", InvalidStoreMsg(store)
                                 \o <<"Unknown client type ",
                                      store_config.type, ".">>),
          client |-> ClientEntry(store, "", <<>>)]
    ELSE IF Keys(store_config.items)
            # (IF store_config.type = "pensieve"
               THEN {"host", "path", "agent"} ELSE {"user", "token"})
    THEN [ret |-> Raise("Error", InvalidStoreMsg(store)
                                 \o <<"Missing or unknown parameters.">>),
          client |-> ClientEntry(store, "", <<>>)]
    ELSE [ret |-> ReturnNone,
          client |->
            ClientEntry(store, store_config.type,
                IF store_config.type = "pensieve"
                THEN NewPensieveClient(Value(store_config.items, "host"),
                                       Value(store_config.items, "path"),
                                       Value(store_config.items, "agent"))
                ELSE NewGitHubClient(Value(store_config.items, "user"),
                                     Value(store_config.items, "token")))]

\* the loop of load over stores.items()
RECURSIVE LoadStores(_, _)
LoadStores(stores, loaded) ==
    IF stores = <<>> THEN [ret |-> ReturnNone, clients |-> loaded]
    ELSE LET one == LoadClientFromStoreConfig(stores[1].store, stores[1].config)
         IN  IF one.ret.kind = "raise"
             THEN [ret |-> one.ret, clients |-> NoClients]
             ELSE LoadStores(Tail(stores), Append(loaded, one.client))

\* load(fileobj): the clients, or the exception that leaves it.  Only
\* KeyError is caught around config['stores']: None['stores'] is a TypeError
Load(config) ==
    IF config.kind = "undecodable"
    THEN [ret |-> Raise("Error", <<"Problem decoding the YAML dotfile.">>),
          clients |-> NoClients]
    ELSE IF config.kind = "null"
    THEN [ret |-> Raise("TypeError",
                        <<"'NoneType' object is not subscriptable">>),
          clients |-> NoClients]
    ELSE IF ~config.hasStores
    THEN [ret |-> Raise("Error", <<"Invalid dotfile. Missing \"stores\" key.">>),
          clients |-> NoClients]
    ELSE LoadStores(config.stores, NoClients)

\* the cache file: absent, or a JSON object of the stores' entries
NoCache == [exists |-> FALSE, written |-> FALSE, entries |-> <<>>]

-----------------------------------------------------------------------------
(* The command line: main and the other commands (cli.py). *)

\* CONFIG_PATH, cli.py line 25, as printed
CONFIG_PATH == "~/.config/pensieve/pensieve.yaml"

\* parse_repository_locator(locator_string, clients): the location, or the
\* message of the ValueError
ParseRepositoryLocator(locator_string, cl) ==
    LET halves == Split(locator_string, ":")
        NoLocation(msg) ==
            [ok |-> FALSE, msg |-> msg, store_name |-> "", type |-> "",
             user_or_org_prefix |-> <<>>, repo_name |-> <<>>, full_name |-> <<>>]
    IN  IF Len(halves) # 2 THEN NoLocation(<<"Must include store name.">>)
        ELSE IF \A i \in 1..Len(cl) : <<cl[i].store>> # halves[1]
        THEN NoLocation(halves[1] \o <<" not a valid store.">>)
        ELSE LET client == cl[CHOOSE i \in 1..Len(cl) : <<cl[i].store>> = halves[1]]
                 rest == halves[2]
                 parts == Split(rest, "/")
                 given == IF Count(rest, "/") > 0 THEN parts[1] \o <<"/">> ELSE <<>>
                 repo_name == IF Count(rest, "/") > 0 THEN parts[2] ELSE rest
                 user_or_org_prefix ==
                    IF client.type = "github" /\ given = <<>>
                    THEN client.client.user \o <<"/">> ELSE given
             IN  [ok |-> TRUE, msg |-> <<>>, store_name |-> client.store,
                  type |-> client.type,
                  user_or_org_prefix |-> user_or_org_prefix,
                  repo_name |-> repo_name,
                  full_name |-> user_or_org_prefix \o repo_name]

\* fatal_error(msg): what is printed on stdout and the exit code
FatalErrorQuiet(msg, color) == [printed |-> <<>>, exitCode |-> 1]
FatalError(msg, color) == [printed |-> <<Bad(msg, color)>>, exitCode |-> 1]

\* the except clauses of main: an exceptions.Error is printed; any other
\* exception ends the process with a traceback and exit code 1
MainExcept(r, color) ==
    IF r.exc \in ErrorKinds THEN FatalError(<<"Error: ">> \o r.msg, color)
    ELSE [printed |-> <<>>, exitCode |-> 1]

\* main opens the dotfile and loads it
MissingFile == [NoDotfile EXCEPT !.kind = "missing"]
MainLoad(config) ==
    IF config.kind = "missing"
    THEN [ret |-> Raise("FileNotFoundError", <<"No such file or directory">>),
          clients |-> NoClients]
    ELSE Load(config)

\* main goes on to the parser and the command
MainIgnoresError(loaded) == TRUE
MainProceeds(loaded) == loaded.ret.kind # "raise"

\* the message cmd_new prints between new and clone
NewCreatedMessage(store_name, full_name) ==
    <<"New repository \"", store_name, ":">> \o full_name \o <<"\" created.">>

\* cmd_new, from the return of client.new on: what is printed, and whether
\* client.clone is called
CmdNewClonesAnyway(c, r) ==
    [printed |-> <<NewCreatedMessage(c.store, c.full_name)>>, clone |-> TRUE]
CmdNewCreated(c, r) ==
    IF r.kind = "raise" THEN [printed |-> <<>>, clone |-> FALSE]
    ELSE [printed |-> <<NewCreatedMessage(c.store, c.full_name)>>,
          clone |-> TRUE]

-----------------------------------------------------------------------------
(* The state machine. *)

NoCall == [client |-> "none", op |-> "", name |-> <<>>, cwd |-> None,
           private |-> NoPrivate]
NoCli == [cmd |-> "none", store |-> "", full_name |-> <<>>, cwd |-> None,
          hasFzf |-> FALSE, color |-> FALSE, pending |-> NoCall,
          topic |-> None, show_archived |-> FALSE, what |-> "", todo |-> <<>>]

\* a client's operation starts: called on its own, or by the command that
\* is running
Ready(c) == pc = "idle" \/ (pc = "cmd" /\ cli.pending = c)

\* repo._asdict(), as json.dump writes it and json.load reads it back
AsDict(r) == [name |-> r.name, description |-> r.description, topics |-> r.topics]

\* _update_cache(store, repos_on_store): the file afterwards
UpdateCacheAlone(found, store, repos_on_store) ==
    [exists |-> TRUE, written |-> TRUE,
     entries |-> <<[store |-> store,
                    repos |-> [i \in 1..Len(repos_on_store) |->
                                AsDict(repos_on_store[i])]]>>]
UpdateCache(found, store, repos_on_store) ==
    LET entry == [store |-> store,
                  repos |-> [i \in 1..Len(repos_on_store) |->
                                AsDict(repos_on_store[i])]]
    IN  [exists |-> TRUE, written |-> TRUE,
         entries |->
            IF \E i \in 1..Len(found.entries) : found.entries[i].store = store
            THEN [i \in 1..Len(found.entries) |->
                    IF found.entries[i].store = store THEN entry
                    ELSE found.entries[i]]
            ELSE Append(found.entries, entry)]

\* highlight, faded, info_heading and info: the message between an escape
\* sequence and _RESET, unless PENSIEVE_COLOR is "no"
Colorize(code, message, color) ==
    IF color THEN <<code>> \o message \o <<_RESET>> ELSE message

\* sep.join(texts)
RECURSIVE Join(_, _)
Join(texts, sep) ==
    IF texts = <<>> THEN <<>>
    ELSE IF Len(texts) = 1 THEN texts[1]
    ELSE texts[1] \o <<sep>> \o Join(Tail(texts), sep)

\* sorted(repos_on_store): the records are compared by name first, and two
\* records of the same name are the same record
RECURSIVE InsertRepo(_, _)
InsertRepo(x, s) ==
    IF s = <<>> THEN <<x>>
    ELSE IF TextLess(x.name, Head(s).name) THEN <<x>> \o s
    ELSE <<Head(s)>> \o InsertRepo(x, Tail(s))

RECURSIVE SortedRepos(_)
SortedRepos(s) ==
    IF s = <<>> THEN <<>>
    ELSE InsertRepo(s[Len(s)], SortedRepos(SubSeq(s, 1, Len(s) - 1)))

\* the lines cmd_list prints for the repositories of a store
RECURSIVE ListLines(_, _, _)
ListLines(store, sorted, c) ==
    IF sorted = <<>> THEN <<>>
    ELSE LET repo == Head(sorted)
             hidden ==
                \/ c.topic # None
                   /\ \A i \in 1..Len(repo.topics) : repo.topics[i] # c.topic
                \/ /\ \E i \in 1..Len(repo.topics) : repo.topics[i] = <<"archived">>
                   /\ ~c.show_archived
             lines ==
                <<Colorize("\\u001b[37;1m", repo.name, c.color)
                  \o Colorize(_RESET, <<" :: ", store>>, c.color)>>
                \o (IF repo.description # None
                    THEN <<<<"    ">>
                           \o Colorize("\\u001b[34m", <<"description">>, c.color)
                           \o <<": ">>
                           \o Colorize("\\u001b[35m", repo.description, c.color)>>
                    ELSE <<>>)
                \o (IF repo.topics # <<>>
                    THEN <<<<"    ">>
                           \o Colorize("\\u001b[34m", <<"topics">>, c.color)
                           \o <<": ">>
                           \o Colorize("\\u001b[35m", Join(repo.topics, ", "),
                                       c.color)>>
                    ELSE <<>>)
         IN  (IF hidden THEN <<>> ELSE lines) \o ListLines(store, Tail(sorted), c)

\* client.list() of a store, as cmd_list calls it
ListCall(cl, store) ==
    [NoCall EXCEPT
        !.client = cl[CHOOSE i \in 1..Len(cl) : cl[i].store = store].type,
        !.op = "list"]

\* _cached_topics(cache)
CachedTopics(entries) ==
    UNION {UNION {{entries[i].repos[j].topics[k] :
                    k \in 1..Len(entries[i].repos[j].topics)} :
                  j \in 1..Len(entries[i].repos)} :
           i \in 1..Len(entries)}

\* _cached_names(cache)
RECURSIVE CachedNames(_)
CachedNames(entries) ==
    IF entries = <<>> THEN <<>>
    ELSE [j \in 1..Len(entries[1].repos) |->
            <<entries[1].store, ":">> \o entries[1].repos[j].name]
         \o CachedNames(Tail(entries))

\* the orders a set can be iterated in
Orderings(S) ==
    {o \in SeqsUpTo(S, Cardinality(S)) :
        /\ Len(o) = Cardinality(S)
        /\ \A i, j \in 1..Len(o) : i # j => o[i] # o[j]}

\* the configurations and the arguments of the model
Hosts == {<<"t@h", ":", "22">>, SshScheme \o <<"t@h", ":", "22">>}
Paths == {<<"/", "s">>, <<"/", "s", "/">>}
Agent == <<"agent">>
RepoNames ==
    {<<"r">>, <<"/", "r">>, <<"u", "/", "r">>, <<"o", "/", "r">>, <<"r", "'">>}
Dirs == {<<"/", "w">>, <<"/", "v">>}
Privates == {NoPrivate, [given |-> TRUE, value |-> TRUE],
             [given |-> TRUE, value |-> FALSE]}
Stores == {"home", "github"}

\* the sections of the dotfiles of the model: the right ones, and one for
\* each way of being wrong
PensieveItems(host, path) ==
    <<<<"host", host>>, <<"path", path>>, <<"agent", Agent>>>>
GitHubItems == <<<<"user", <<"u">>>>, <<"token", <<"token">>>>>>
HomeConfigs ==
    {StoreConfig(TRUE, "pensieve", PensieveItems(h, p)) : h \in Hosts, p \in Paths}
    \cup {StoreConfig(FALSE, "", PensieveItems(<<"t@h", ":", "22">>, <<"/", "s">>)),
          StoreConfig(TRUE, "gitlab", PensieveItems(<<"t@h", ":", "22">>, <<"/", "s">>)),
          StoreConfig(TRUE, "pensieve",
                      SubSeq(PensieveItems(<<"t@h", ":", "22">>, <<"/", "s">>), 1, 2)),
          StoreConfig(TRUE, "pensieve",
                      PensieveItems(<<"t@h", ":", "22">>, <<"/", "s">>)
                      \o <<<<"token", <<"token">>>>>>)}
GitHubConfigs ==
    {StoreConfig(TRUE, "github", GitHubItems),
     StoreConfig(TRUE, "github", SubSeq(GitHubItems, 1, 1)),
     StoreConfig(TRUE, "github", GitHubItems \o <<<<"host", <<"h">>>>>>)}
StoreLists ==
    {<<>>}
    \cup {<<Entry("home", h)>> : h \in HomeConfigs}
    \cup {<<Entry("github", g)>> : g \in GitHubConfigs}
    \cup {<<Entry("home", h), Entry("github", g)>> :
            h \in HomeConfigs, g \in GitHubConfigs}
    \cup {<<Entry("github", g), Entry("home", h)>> :
            h \in HomeConfigs, g \in GitHubConfigs}
Dotfiles ==
    {Undecodable, EmptyDocument, Mapping(FALSE, <<>>)}
    \cup {Mapping(TRUE, stores) : stores \in StoreLists}

\* what the agent lists to a command: records with and without description
\* and topics, among them an archived one and names with one and two slashes
CliListings ==
    {<<>>,
     <<[name |-> <<"r">>, description |-> None, topics |-> <<<<"b">>, <<"a">>>>],
       [name |-> <<"q">>, description |-> <<"d">>, topics |-> <<<<"archived">>>>]>>,
     <<[name |-> <<"a", "/", "b">>, description |-> None, topics |-> <<>>]>>,
     <<[name |-> <<"a", "/", "b", "/", "c">>, description |-> <<"d">>,
        topics |-> <<<<"a">>>>]>>}

\* what the ssh transport answers to a command of the command line: no
\* connection, text that is no JSON, an error of the agent, a response
\* without "error", and success
CliSshOutcomes(command) ==
    {[returncode |-> 255, stdout |-> <<>>, stderr |-> <<"denied">>, doc |-> NoDocument],
     [returncode |-> 0, stdout |-> <<"oops">>, stderr |-> <<>>, doc |-> NoDocument]}
    \cup {[returncode |-> 0, stdout |-> <<"<json>", "\n">>, stderr |-> <<>>, doc |-> d] :
            d \in {Document(ErrorObject(1, <<"boom">>), DataMap(<<>>)),
                   Document(NoError, DataMap(<<>>))}
                  \cup (IF command = <<"list">>
                        THEN {Document(ErrorObject(0, <<>>), DataMap(l)) :
                                l \in CliListings}
                        ELSE {Document(ErrorObject(0, <<>>), DataMap(<<>>))})}

\* the dotfiles main finds: the one of the two stores of the model, none,
\* and one for each way load fails
MainDotfiles ==
    {Mapping(TRUE, <<Entry("home", StoreConfig(TRUE, "pensieve",
                                PensieveItems(pensieve.host, pensieve.path))),
                     Entry("github", StoreConfig(TRUE, "github", GitHubItems))>>),
     MissingFile, Undecodable, EmptyDocument, Mapping(FALSE, <<>>),
     Mapping(TRUE, <<Entry("home", StoreConfig(TRUE, "gitlab",
                                PensieveItems(<<"t@h", ":", "22">>, <<"/", "s">>)))>>)}

\* the cache file a command finds: none, or one written by earlier runs
Caches ==
    {NoCache,
     [exists |-> TRUE, written |-> FALSE,
      entries |-> <<[store |-> "old",
                     repos |-> <<[name |-> <<"q">>, description |-> None,
                                  topics |-> <<<<"c">>>>]>>],
                    [store |-> "home",
                     repos |-> <<[name |-> <<"o", "/", "q">>, description |-> <<"d">>,
                                  topics |-> <<<<"a">>, <<"b">>>>]>>]>>]}

\* the locators given to new: with and without a prefix, without a store and
\* with a store that is not configured
Locators ==
    {<<s, ":">> \o n : s \in Stores, n \in RepoNames \ {<<"r", "'">>}}
    \cup {<<"r">>, <<"elsewhere", ":", "r">>}

\* what git can answer: stderr is redirected into stdout
GitOutcomes ==
    {[returncode |-> rc, stdout |-> t, stderr |-> <<>>, doc |-> NoDocument] :
        rc \in ReturnCodes, t \in OutTexts}

Init ==
    /\ pensieve \in {NewPensieveClient(h, p, Agent) : h \in Hosts, p \in Paths}
    /\ github = NewGitHubClient(<<"u">>, <<"token">>)
    /\ pc = "idle"
    /\ cli = NoCli
    /\ call = NoCall
    /\ procs = <<>>
    /\ reqs = <<>>
    /\ proc = NoProc
    /\ response = NoHttpResponse
    /\ invoked = NoResult
    /\ repos = <<>>
    /\ served = <<>>
    /\ calls = <<>>
    /\ dotfile = NoDotfile
    /\ clients = NoClients
    /\ cache = NoCache
    /\ ret = NoResult
    /\ printed = <<>>
    /\ exitCode = -1

\* the data _invoke is called with: None, or a dict given by its items
NoInvokeData == [given |-> FALSE, items |-> <<>>]
InvokeData(items) == [given |-> TRUE, items |-> items]

\* the command and the data of the _invoke of an operation
InvokeCommand(c) == <<c.op>>
InvokeArgument(c) ==
    IF c.op = "new" THEN InvokeData(<<<<<<"name">>, c.name>>>>) ELSE NoInvokeData

\* PensieveClient.new(name), up to the start of ssh
PensieveNew(name) ==
    /\ Ready([NoCall EXCEPT !.client = "pensieve", !.op = "new", !.name = name])
    /\ call' = [NoCall EXCEPT !.client = "pensieve", !.op = "new", !.name = name]
    /\ calls' = Append(calls, call')
    /\ procs' = procs \o InvokeProcesses(pensieve, InvokeCommand(call'),
                                        InvokeArgument(call'))
    /\ pc' = "ssh"
    /\ UNCHANGED <<dotfile, clients, cache, served, pensieve, github, cli,
                   reqs, proc, response, invoked, repos, ret, printed,
                   exitCode>>

\* PensieveClient.list(), up to the start of ssh
PensieveList ==
    /\ Ready([NoCall EXCEPT !.client = "pensieve", !.op = "list"])
    /\ call' = [NoCall EXCEPT !.client = "pensieve", !.op = "list"]
    /\ calls' = Append(calls, call')
    /\ procs' = procs \o InvokeProcesses(pensieve, InvokeCommand(call'),
                                        InvokeArgument(call'))
    /\ pc' = "ssh"
    /\ UNCHANGED <<dotfile, clients, cache, served, pensieve, github, cli,
                   reqs, proc, response, invoked, repos, ret, printed,
                   exitCode>>

\* the ssh process exits: the rest of _invoke and of new or list
SshExit ==
    /\ pc = "ssh"
    /\ \E p \in IF cli.cmd = "none" THEN SshOutcomes(InvokeCommand(call))
                ELSE CliSshOutcomes(InvokeCommand(call)) :
        /\ proc' = p
        /\ invoked' = Invoke(pensieve, InvokeCommand(call), InvokeArgument(call), p)
        /\ ret' = IF call.op = "new" THEN PensieveNewResult(invoked')
                  ELSE PensieveListResult(invoked')
    /\ pc' = "returned"
    /\ UNCHANGED <<calls, dotfile, clients, cache, served, pensieve, github,
                   cli, call, procs, reqs, response, repos, printed, exitCode>>

\* client.clone(name, cwd) of either client, up to the start of git
StartClone(client, name, cwd) ==
    /\ call' = [NoCall EXCEPT !.client = client, !.op = "clone", !.name = name,
                              !.cwd = cwd]
    /\ calls' = Append(calls, call')
    /\ procs' = procs \o
                (IF client = "pensieve"
                 THEN PensieveCloneProcesses(pensieve, name, cwd)
                 ELSE <<Process(GitHubCloneCommand(name), cwd, <<>>)>>)
    /\ pc' = "git"

\* PensieveClient.clone(name, cwd), up to the start of git
PensieveClone(name, cwd) ==
    /\ Ready([NoCall EXCEPT !.client = "pensieve", !.op = "clone",
                            !.name = name, !.cwd = cwd])
    /\ StartClone("pensieve", name, cwd)
    /\ UNCHANGED <<dotfile, clients, cache, served, pensieve, github, cli,
                   reqs, proc, response, invoked, repos, ret, printed,
                   exitCode>>

\* GitHubClient.clone(full_name, cwd), up to the start of git
GitHubClone(full_name, cwd) ==
    /\ Ready([NoCall EXCEPT !.client = "github", !.op = "clone",
                            !.name = full_name, !.cwd = cwd])
    /\ StartClone("github", full_name, cwd)
    /\ UNCHANGED <<dotfile, clients, cache, served, pensieve, github, cli,
                   reqs, proc, response, invoked, repos, ret, printed,
                   exitCode>>

\* the git process exits: the rest of clone
GitExit ==
    /\ pc = "git"
    /\ \E p \in GitOutcomes :
        /\ proc' = p
        /\ ret' = IF call.client = "pensieve"
                  THEN PensieveCloneResult(call.name, p)
                  ELSE GitHubCloneResult(p)
    /\ pc' = "returned"
    /\ UNCHANGED <<calls, dotfile, clients, cache, served, pensieve, github,
                   cli, call, procs, reqs, response, invoked, repos, printed,
                   exitCode>>

\* GitHubClient.new(full_name, private), up to its POST
GitHubNew(full_name, private) ==
    /\ Ready([NoCall EXCEPT !.client = "github", !.op = "new",
                            !.name = full_name, !.private = private])
    /\ call' = [NoCall EXCEPT !.client = "github", !.op = "new",
                              !.name = full_name, !.private = private]
    /\ calls' = Append(calls, call')
    /\ LET start == GitHubNewRequests(github, full_name, private)
       IN  /\ reqs' = reqs \o start.reqs
           /\ ret' = start.ret
           /\ pc' = IF start.ret.kind = "raise" THEN "returned" ELSE "post"
    /\ UNCHANGED <<dotfile, clients, cache, served, pensieve, github, cli,
                   procs, proc, response, invoked, repos, printed, exitCode>>

\* the API answers the POST: the rest of new
PostResponse ==
    /\ pc = "post"
    /\ \E status \in StatusCodes, b \in PostBodies :
        /\ response' = [status_code |-> status, body |-> b]
        /\ ret' = GitHubNewResult(response')
    /\ pc' = "returned"
    /\ UNCHANGED <<calls, dotfile, clients, cache, served, pensieve, github,
                   cli, call, procs, reqs, proc, invoked, repos, printed,
                   exitCode>>

\* GitHubClient.list(), up to its first GET
GitHubList ==
    /\ Ready([NoCall EXCEPT !.client = "github", !.op = "list"])
    /\ call' = [NoCall EXCEPT !.client = "github", !.op = "list"]
    /\ calls' = Append(calls, call')
    /\ reqs' = reqs \o <<GitHubListRequest(github, 1)>>
    /\ pc' = "get"
    /\ UNCHANGED <<dotfile, clients, cache, served, pensieve, github, cli,
                   procs, proc, response, invoked, repos, ret, printed,
                   exitCode>>

\* the pages with repositories the API can still serve: a single one when
\* list is called by a command
PagesLeft == IF cli.cmd = "none" THEN MaxPages + 1 - Len(reqs) ELSE 2 - Len(reqs)

\* the API answers a GET: one turn of the loop of list, up to the next GET
GetResponse ==
    /\ pc = "get"
    /\ \E status \in {200}, b \in GetBodies(PagesLeft) :
        /\ response' = [status_code |-> status, body |-> b]
        /\ served' = Append(served, b)
        /\ LET step == GitHubListStep(repos, b)
           IN  /\ repos' = step.repos
               /\ ret' = step.ret
               /\ reqs' = IF step.more
                          THEN Append(reqs, GitHubListRequest(github, Len(reqs) + 1))
                          ELSE reqs
               /\ pc' = IF step.more THEN "get" ELSE "returned"
    /\ UNCHANGED <<dotfile, clients, cache, calls, pensieve, github, cli, call,
                   procs, proc, invoked, printed, exitCode>>

\* dotfile.load(fileobj), called on its own
DotfileLoad(config) ==
    /\ pc = "idle"
    /\ call' = [NoCall EXCEPT !.client = "dotfile", !.op = "load"]
    /\ dotfile' = config
    /\ LET loaded == Load(config)
       IN  /\ clients' = loaded.clients
           /\ ret' = loaded.ret
    /\ pc' = "returned"
    /\ UNCHANGED <<pensieve, github, cli, calls, procs, reqs, proc, response,
                   invoked, repos, served, cache, printed, exitCode>>

\* main, up to the command: the dotfile is loaded; an error ends the process
Main(config, color) ==
    /\ pc = "idle"
    /\ config \in MainDotfiles
    /\ dotfile' = config
    /\ cli' = [NoCli EXCEPT !.color = color]
    /\ LET loaded == MainLoad(config)
           end == IF config.kind = "missing"
                  THEN FatalError(<<"Pensieve dotfile not found at ",
                                    CONFIG_PATH, ".">>, color)
                  ELSE MainExcept(loaded.ret, color)
       IN  /\ ret' = loaded.ret
           /\ clients' = loaded.clients
           /\ IF MainProceeds(loaded)
              THEN pc' = "main" /\ UNCHANGED <<printed, exitCode>>
              ELSE /\ printed' = printed \o end.printed
                   /\ exitCode' = end.exitCode
                   /\ pc' = "exited"
    /\ UNCHANGED <<pensieve, github, call, calls, procs, reqs, proc, response,
                   invoked, repos, served, cache>>

\* the client of a store
ClientOf(store) == IF store = "home" THEN "pensieve" ELSE "github"

\* pensieve clone <store>:<full_name>: cmd_clone up to client.clone.  Without
\* fzf the parser's nargs is 1 and args.locator is a list, which has no
\* attribute client: the process ends with a traceback
CliClone(store, full_name, cwd, hasFzf) ==
    /\ pc = "main"
    /\ cli' = [cli EXCEPT !.cmd = "clone", !.store = store,
                          !.full_name = full_name, !.cwd = cwd,
                          !.hasFzf = hasFzf]
    /\ IF hasFzf
       THEN /\ StartClone(ClientOf(store), full_name, cwd)
            /\ UNCHANGED <<ret, exitCode>>
       ELSE /\ ret' = Raise("AttributeError",
                            <<"'list' object has no attribute 'client'">>)
            /\ exitCode' = 1
            /\ pc' = "exited"
            /\ UNCHANGED <<call, calls, procs>>
    /\ UNCHANGED <<dotfile, clients, cache, served, pensieve, github, reqs,
                   proc, response, invoked, repos, printed>>

\* cmd_clone, from the return of client.clone on
CliCloneEnd ==
    /\ pc = "returned"
    /\ cli.cmd = "clone"
    /\ LET end == CmdCloneEnd(cli, ret)
       IN  /\ printed' = printed \o end.printed
           /\ exitCode' = end.exitCode
    /\ pc' = "exited"
    /\ UNCHANGED <<calls, dotfile, clients, cache, served, pensieve, github,
                   cli, call, procs, reqs, proc, response, invoked, repos,
                   ret>>

\* an exception reaches main, or the command is over: the end of the process
CliEnd(r, color) ==
    IF r.kind = "raise" THEN MainExcept(r, color)
    ELSE [printed |-> <<>>, exitCode |-> 0]

\* pensieve new <locator>: the parser and cmd_new up to client.new.  A
\* locator that does not parse ends the process in the parser, with code 2
CliNew(locator, cwd) ==
    /\ pc = "main"
    /\ LET loc == ParseRepositoryLocator(locator, clients)
       IN  IF loc.ok
           THEN /\ cli' = [cli EXCEPT !.cmd = "new", !.store = loc.store_name,
                                      !.full_name = loc.full_name, !.cwd = cwd,
                                      !.pending =
                                        [NoCall EXCEPT !.client = loc.type,
                                                       !.op = "new",
                                                       !.name = loc.full_name]]
                /\ pc' = "cmd"
                /\ UNCHANGED <<ret, exitCode>>
           ELSE /\ ret' = Raise("ArgumentTypeError", loc.msg)
                /\ exitCode' = 2
                /\ pc' = "exited"
                /\ UNCHANGED cli
    /\ UNCHANGED <<pensieve, github, call, calls, procs, reqs, proc, response,
                   invoked, repos, served, dotfile, clients, cache, printed>>

\* cmd_new, from the return of client.new up to client.clone; the locals of
\* the call that is over are gone
CliNewCreated ==
    /\ pc = "returned"
    /\ cli.cmd = "new"
    /\ call.op = "new"
    /\ LET created == CmdNewCreated(cli, ret)
           end == CliEnd(ret, cli.color)
       IN  IF created.clone
           THEN /\ printed' = printed \o created.printed
                /\ cli' = [cli EXCEPT !.pending =
                            [NoCall EXCEPT !.client = call.client, !.op = "clone",
                                           !.name = cli.full_name,
                                           !.cwd = cli.cwd]]
                /\ pc' = "cmd"
                /\ call' = NoCall
                /\ procs' = <<>>
                /\ reqs' = <<>>
                /\ proc' = NoProc
                /\ response' = NoHttpResponse
                /\ invoked' = NoResult
                /\ UNCHANGED exitCode
           ELSE /\ printed' = printed \o created.printed \o end.printed
                /\ exitCode' = end.exitCode
                /\ pc' = "exited"
                /\ UNCHANGED <<cli, call, procs, reqs, proc, response,
                               invoked>>
    /\ UNCHANGED <<pensieve, github, calls, repos, served, dotfile, clients,
                   cache, ret>>

\* cmd_new, from the return of client.clone on
CliNewEnd ==
    /\ pc = "returned"
    /\ cli.cmd = "new"
    /\ call.op = "clone"
    /\ LET end == CliEnd(ret, cli.color)
       IN  /\ printed' = printed \o end.printed
           /\ exitCode' = end.exitCode
    /\ pc' = "exited"
    /\ UNCHANGED <<pensieve, github, cli, call, calls, procs, reqs, proc,
                   response, invoked, repos, served, dotfile, clients, cache,
                   ret>>

\* pensieve list [--topic t] [--show-archived], with the cache file as it is
\* found: cmd_list up to the list() of the first store of sorted(args.clients)
CliList(topic, show_archived, found) ==
    /\ pc = "main"
    /\ cache' = found
    /\ LET todo == Sorted([i \in 1..Len(clients) |-> <<clients[i].store>>])
       IN  /\ cli' = [cli EXCEPT !.cmd = "list", !.topic = topic,
                                 !.show_archived = show_archived,
                                 !.todo = todo,
                                 !.pending = IF todo = <<>> THEN NoCall
                                             ELSE ListCall(clients, todo[1][1])]
           /\ IF todo = <<>>
              THEN pc' = "exited" /\ exitCode' = 0
              ELSE pc' = "cmd" /\ UNCHANGED exitCode
    /\ UNCHANGED <<pensieve, github, call, calls, procs, reqs, proc, response,
                   invoked, repos, served, dotfile, clients, ret, printed>>

\* cmd_list, from the return of a store's list() on: the cache is updated,
\* the repositories are printed, and the next store is listed; the locals of
\* the call that is over are gone
CliListStore ==
    /\ pc = "returned"
    /\ cli.cmd = "list"
    /\ IF ret.kind = "raise"
       THEN /\ printed' = printed \o CliEnd(ret, cli.color).printed
            /\ exitCode' = CliEnd(ret, cli.color).exitCode
            /\ pc' = "exited"
            /\ UNCHANGED <<cli, cache, call, procs, reqs, proc, response,
                           invoked, repos, served>>
       ELSE LET store == cli.todo[1][1]
                rest == Tail(cli.todo)
            IN  /\ cache' = UpdateCache(cache, store, ret.value)
                /\ printed' = printed
                              \o ListLines(store, SortedRepos(ret.value), cli)
                /\ cli' = [cli EXCEPT !.todo = rest,
                                      !.pending = IF rest = <<>> THEN NoCall
                                                  ELSE ListCall(clients, rest[1][1])]
                /\ IF rest = <<>>
                   THEN /\ pc' = "exited"
                        /\ exitCode' = 0
                        /\ UNCHANGED <<call, procs, reqs, proc, response,
                                       invoked, repos, served>>
                   ELSE /\ pc' = "cmd"
                        /\ call' = NoCall
                        /\ procs' = <<>>
                        /\ reqs' = <<>>
                        /\ proc' = NoProc
                        /\ response' = NoHttpResponse
                        /\ invoked' = NoResult
                        /\ repos' = <<>>
                        /\ served' = <<>>
                        /\ UNCHANGED exitCode
    /\ UNCHANGED <<pensieve, github, calls, dotfile, clients, ret>>

\* pensieve cached {stores, topics, names}, with the cache file as it is
\* found: cmd_cached; the topics are printed in the order of a set
CliCached(what, found) ==
    /\ pc = "main"
    /\ cache' = found
    /\ cli' = [cli EXCEPT !.cmd = "cached", !.what = what]
    /\ \E order \in Orderings(CachedTopics(found.entries)) :
        printed' = printed \o
            <<Join(CASE what = "stores" ->
                            [i \in 1..Len(found.entries) |->
                                <<found.entries[i].store>>]
                     [] what = "topics" -> order
                     [] OTHER -> CachedNames(found.entries),
                   "\n")>>
    /\ exitCode' = 0
    /\ pc' = "exited"
    /\ UNCHANGED <<pensieve, github, call, calls, procs, reqs, proc, response,
                   invoked, repos, served, dotfile, clients, ret>>

\* the caller goes on: a new operation, or a new process, starts from scratch
Reset ==
    /\ \/ pc = "returned" /\ cli.cmd = "none"
       \/ pc = "exited"
    /\ pc' = "idle"
    /\ cli' = NoCli
    /\ call' = NoCall
    /\ procs' = <<>>
    /\ reqs' = <<>>
    /\ proc' = NoProc
    /\ response' = NoHttpResponse
    /\ invoked' = NoResult
    /\ repos' = <<>>
    /\ served' = <<>>
    /\ calls' = <<>>
    /\ dotfile' = NoDotfile
    /\ clients' = NoClients
    /\ cache' = NoCache
    /\ ret' = NoResult
    /\ printed' = <<>>
    /\ exitCode' = -1
    /\ UNCHANGED <<pensieve, github>>

Next ==
    \/ \E name \in RepoNames : PensieveNew(name)
    \/ PensieveList
    \/ SshExit
    \/ \E name \in RepoNames, cwd \in Dirs : PensieveClone(name, cwd)
    \/ \E name \in RepoNames, cwd \in Dirs : GitHubClone(name, cwd)
    \/ GitExit
    \/ \E name \in RepoNames, private \in Privates : GitHubNew(name, private)
    \/ PostResponse
    \/ GitHubList
    \/ GetResponse
    \/ \E config \in Dotfiles : DotfileLoad(config)
    \/ \E config \in Dotfiles \cup {MissingFile}, color \in BOOLEAN :
            Main(config, color)
    \/ \E store \in Stores, name \in RepoNames, cwd \in Dirs, hasFzf \in BOOLEAN :
            CliClone(store, name, cwd, hasFzf)
    \/ CliCloneEnd
    \/ \E locator \in Locators, cwd \in Dirs : CliNew(locator, cwd)
    \/ CliNewCreated
    \/ CliNewEnd
    \/ \E topic \in {None, <<"a">>}, show_archived \in BOOLEAN, found \in Caches :
            CliList(topic, show_archived, found)
    \/ CliListStore
    \/ \E what \in {"stores", "topics", "names"}, found \in Caches :
            CliCached(what, found)
    \/ Reset

Spec == Init /\ [][Next]_vars

-----------------------------------------------------------------------------
(* The claims. *)

\* the operation of the given client and name has ended
Returned(client, ops) ==
    pc = "returned" /\ call.client = client /\ call.op \in ops

\* the operation has ended after its transport answered
Answered == pc = "returned" /\ (procs # <<>> \/ reqs # <<>>)

\* C1: every remote operation of either client, whatever its transport
\* answers, either succeeds or raises an error of the base kind
\* exceptions.Error; no other exception escapes.
C1_OnlyClientErrors ==
    Answered => \/ ret.kind = "return"
                \/ ret.kind = "raise" /\ ret.exc \in ErrorKinds

\* C2: when ssh exits non-zero, new and list fail whatever the output is; if
\* the captured output (stdout or stderr) contains "No such file" the message
\* contains the configured path, otherwise it is the connection-failed
\* message with the stripped stdout and stderr.
C2_SshFailure ==
    (Returned("pensieve", {"new", "list"}) /\ proc.returncode # 0) =>
        /\ ret.kind = "raise"
        /\ ret.exc = "ClientError"
        /\ IF Contains(proc.stdout, <<NoSuchFile>>)
              \/ Contains(proc.stderr, <<NoSuchFile>>)
           THEN Contains(ret.msg, pensieve.path)
           ELSE /\ StartsWith(ret.msg, <<"Connection failed with error: ">>)
                /\ Contains(ret.msg, Strip(proc.stdout) \o Strip(proc.stderr))

\* ssh exited with code 0 and its stdout is not a JSON document
NotJson ==
    /\ Returned("pensieve", {"new", "list"})
    /\ proc.returncode = 0
    /\ Strip(proc.stdout) # <<"<json>">>

\* C3, as stated: ssh exits 0 with a stdout that is not JSON: a decode error
\* is raised whose message contains the payload sent and the raw text
\* received.
C3_DecodeErrorRaw ==
    NotJson =>
        /\ ret.kind = "raise"
        /\ ret.exc = "ClientError"
        /\ Contains(ret.msg, procs[1].input)
        /\ Contains(ret.msg, proc.stdout)

\* C3, amended: ssh exits 0 with a stdout that is not JSON: a decode error is
\* raised whose message contains str() of the payload bytes (b'...', the
\* payload itself when it holds no single quote and no backslash) and the
\* received text stripped of the whitespace around it.
C3_DecodeError ==
    NotJson =>
        /\ ret.kind = "raise"
        /\ ret.exc = "ClientError"
        /\ StartsWith(ret.msg,
                <<"Problem decoding when communicating JSON over SSH.">>)
        /\ Contains(ret.msg, <<"\nSent: ", "b'">>)
        /\ \E i \in 1..Len(ret.msg) :
            /\ ret.msg[i] = "b'"
            /\ \E j \in (i + 1)..Len(ret.msg) :
                /\ ret.msg[j] = "'"
                /\ ret.msg[j + 1] = "\nReceived: "
                /\ SubSeq(ret.msg, i + 1, j - 1) = BytesEscape(procs[1].input)
                /\ SubSeq(ret.msg, j + 2, Len(ret.msg)) = Strip(proc.stdout)
        /\ (~Contains(procs[1].input, <<"'">>) /\ ~Contains(procs[1].input, <<"\\">>))
            => Contains(ret.msg, procs[1].input)

C3_Witness ==
    /\ NotJson
    /\ call.name = <<"r", "'">>
    /\ proc.stdout = <<"oops", "\n">>
    /\ ret.kind = "raise"

\* ssh exited with code 0 and its stdout is a JSON object with error.code
WellFormed ==
    /\ Returned("pensieve", {"new", "list"})
    /\ proc.returncode = 0
    /\ Strip(proc.stdout) = <<"<json>">>
    /\ proc.doc.isObject
    /\ proc.doc.error.kind = "object"
    /\ proc.doc.error.hasCode

\* C4: ssh exits 0 with valid JSON: if response.error.code is non-zero,
\* _invoke raises a ClientError whose message is exactly response.error.msg
\* and returns no data; otherwise it returns exactly response.data.
C4_ErrorCode ==
    WellFormed =>
        /\ (proc.doc.error.code # 0 /\ proc.doc.error.hasMsg) =>
            /\ invoked = Raise("ClientError", proc.doc.error.msg)
            /\ ret = invoked
        /\ (proc.doc.error.code = 0 /\ proc.doc.data.kind # "absent") =>
            /\ invoked.kind = "return"
            /\ invoked.data = proc.doc.data

C4_Witness ==
    /\ WellFormed
    /\ proc.doc.error.code = 2
    /\ invoked.kind = "raise"
    /\ invoked.msg = <<"boom">>

\* json.dumps({"command": op, "data": {"name": name}}) for a name that
\* needs no escape, and json.dumps({"command": "list", "data": {}})
PayloadText(c) ==
    <<"{", "\"command\"", ": ", "\"", c.op, "\"", ", ", "\"data\"", ": ", "{">>
    \o (IF c.op = "new"
        THEN <<"\"", "name", "\"", ": ", "\"">> \o c.name \o <<"\"">>
        ELSE <<>>)
    \o <<"}", "}">>

\* C5: a new or list call of PensieveClient starts exactly one ssh process,
\* fed one payload {command, data} (data {} for list), and a failing call
\* has started no second one.
C5_OneExchange ==
    (call.client = "pensieve" /\ call.op \in {"new", "list"}) =>
        /\ Len(procs) = 1
        /\ procs[1].argv[1] = <<"ssh">>
        /\ procs[1].input = PayloadText(call)

C5_Witness ==
    /\ Returned("pensieve", {"new"})
    /\ ret.kind = "raise"
    /\ proc.returncode = 255
    /\ Len(procs) = 1

\* the list s of strings is in ascending order
IsAscending(s) == \A i \in 1..(Len(s) - 1) : ~TextLess(s[i + 1], s[i])

\* C6: list() of PensieveClient returns one record per entry of the
\* response's data, in the order of the mapping, with the entry's name and
\* description and with the entry's topics in ascending order: the same
\* topics, each as many times.
C6_ListRecords ==
    (Returned("pensieve", {"list"}) /\ ret.kind = "return") =>
        LET entries == proc.doc.data.entries
        IN  /\ Len(ret.value) = Len(entries)
            /\ \A i \in 1..Len(entries) :
                /\ ret.value[i].name = entries[i].name
                /\ ret.value[i].description = entries[i].description
                /\ IsAscending(ret.value[i].topics)
                /\ Len(ret.value[i].topics) = Len(entries[i].topics)
                /\ \A t \in TopicSet :
                    Count(ret.value[i].topics, t) = Count(entries[i].topics, t)

C6_Witness ==
    /\ Returned("pensieve", {"list"})
    /\ ret.kind = "return"
    /\ Len(ret.value) = 2
    /\ proc.doc.data.entries[2].topics = <<<<"b">>, <<"a", "b">>>>
    /\ ret.value[2].topics = <<<<"a", "b">>, <<"b">>>>
    /\ ret.value[1].name = <<"r">>

\* the operation started only ssh processes, each fed a payload
OnlyAgent ==
    \A i \in 1..Len(procs) :
        procs[i].argv[1] = <<"ssh">> /\ procs[i].input # <<>>

\* the operation started only git processes, none fed anything
OnlyGit ==
    \A i \in 1..Len(procs) :
        procs[i].argv[1] = <<"git">> /\ procs[i].input = <<>>

C8_CloneMessageWithOutput ==
    (Returned("pensieve", {"clone"}) /\ proc.returncode # 0) =>
        /\ ret.kind = "raise"
        /\ Contains(ret.msg, call.name)
        /\ Contains(ret.msg, Strip(proc.stdout))

\* C8, amended: when git exits non-zero, clone of PensieveClient fails with
\* the message: Could not clone the repository "<name>" from the server.
\* The message names the repository; the output of git is not in it.
C8_CloneMessage ==
    (Returned("pensieve", {"clone"}) /\ proc.returncode # 0) =>
        /\ ret.kind = "raise"
        /\ ret.exc = "ClientError"
        /\ ret.msg = <<"Could not clone the repository \"">> \o call.name
                     \o <<"\" from the server.">>
        /\ \A i \in 1..Len(proc.stdout) : ~Contains(ret.msg, <<proc.stdout[i]>>)

C8_Witness ==
    /\ Returned("pensieve", {"clone"})
    /\ proc.returncode = 1
    /\ proc.stdout = <<"oops", "\n">>
    /\ ret.kind = "raise"

\* C9: clone of either client raises a ClientError when git exits non-zero
\* and returns when it exits zero; the clone command prints "Cloned
\* repository" only when git ran and exited zero, and prints the error and
\* exits with code 1 when git exited non-zero.
C9_CloneExit ==
    /\ (pc = "returned" /\ call.op = "clone") =>
        /\ proc.returncode # 0 => (ret.kind = "raise" /\ ret.exc = "ClientError")
        /\ proc.returncode = 0 => ret.kind = "return"
    /\ (pc = "exited" /\ cli.cmd = "clone") =>
        /\ (\E i \in 1..Len(printed) : Contains(printed[i], <<"Cloned repository \"">>))
            => (Len(procs) = 1 /\ proc.returncode = 0 /\ exitCode = 0)
        /\ (Len(procs) = 1 /\ proc.returncode # 0) =>
            /\ exitCode = 1
            /\ Len(printed) = 1
            /\ Contains(printed[1], ret.msg)
            /\ ~Contains(printed[1], <<"Cloned repository \"">>)

C9_Witness ==
    /\ pc = "exited"
    /\ cli.cmd = "clone"
    /\ cli.store = "github"
    /\ proc.returncode = 255
    /\ exitCode = 1
    /\ printed = <<<<"\\u001b[31m", "oops", _RESET>>>>

\* C10: new(full_name) of GitHubClient, full_name being <owner>/<repo>,
\* issues exactly one POST, to the user-repos endpoint when owner is the
\* authenticated user and to the org-repos endpoint of owner otherwise, with
\* the body {name: repo, private}, private true by default; a response status
\* other than 201 makes the call fail.
C10_NewEndpoint ==
    (call.client = "github" /\ call.op = "new" /\ Count(call.name, "/") = 1) =>
        LET i == LastIndex(call.name, "/")
            owner == SubSeq(call.name, 1, i - 1)
            repo == SubSeq(call.name, i + 1, Len(call.name))
        IN  /\ Len(reqs) = 1
            /\ reqs[1].method = "POST"
            /\ reqs[1].url =
                IF owner = github.user
                THEN <<"https://api.github.com", "/", "user", "/", "repos">>
                ELSE <<"https://api.github.com", "/", "orgs", "/">> \o owner
                     \o <<"/", "repos">>
            /\ reqs[1].json.name = repo
            /\ reqs[1].json.private =
                (IF call.private.given THEN call.private.value ELSE TRUE)
            /\ (pc = "returned" /\ response.status_code # 201) => ret.kind = "raise"

C10_Witness ==
    /\ Returned("github", {"new"})
    /\ call.name = <<"o", "/", "r">>
    /\ ~call.private.given
    /\ response.status_code = 422
    /\ ret = Raise("ClientError", <<"Validation Failed", " ", "exists">>)

\* GitHubClient.list is running or has just ended
Listing ==
    call.client = "github" /\ call.op = "list" /\ pc \in {"get", "returned"}

\* the body is a page with at least one repository
IsPage(b) == b.kind = "list" /\ b.items # <<>>

\* the repositories of the served bodies, in the order of the API
RECURSIVE ServedItems(_)
ServedItems(bodies) ==
    IF bodies = <<>> THEN <<>>
    ELSE ServedItems(SubSeq(bodies, 1, Len(bodies) - 1))
         \o bodies[Len(bodies)].items

IsAdmin(r) == r.admin

\* the API served k pages with repositories, then an empty list
PagesThenEmpty ==
    /\ Listing
    /\ pc = "returned"
    /\ served # <<>>
    /\ \A i \in 1..(Len(served) - 1) : IsPage(served[i])
    /\ served[Len(served)] = ListBody(<<>>)

\* C11: when the API serves k pages with repositories and then an empty
\* page, list() of GitHubClient issues exactly k + 1 requests and returns the
\* administered records of the pages, concatenated in the order of the API:
\* none twice, none dropped, none moved.
C11_Pagination ==
    PagesThenEmpty =>
        LET kept == SelectSeq(ServedItems(served), IsAdmin)
        IN  /\ Len(reqs) = Len(served)
            /\ ret.kind = "return"
            /\ Len(ret.value) = Len(kept)
            /\ \A i \in 1..Len(kept) :
                /\ ret.value[i].name = kept[i].full_name
                /\ ret.value[i].description = kept[i].description
                /\ ret.value[i].topics = kept[i].topics

C11_Witness ==
    /\ PagesThenEmpty
    /\ Len(reqs) = 3
    /\ Len(served[1].items) = 2
    /\ Len(ret.value) = 3
    /\ ret.value[1].name = <<"o", "/", "q">>
    /\ ret.value[2].name = <<"u", "/", "r">>
    /\ ret.value[3].name = <<"o", "/", "q">>

\* C12: list() of GitHubClient returns a repository if and only if it is on
\* a fetched page with permissions.admin true; a page with repositories, none
\* of them administered, adds nothing and is followed by the next request.
C12_AdminOnly ==
    /\ (Listing /\ pc = "returned" /\ ret.kind = "return") =>
        \A r \in ApiRepos :
            (\E i \in 1..Len(ret.value) : ret.value[i].name = r.full_name)
            <=> (r.admin /\ \E k \in 1..Len(served), j \in 1..MaxPageLen :
                    j <= Len(served[k].items) /\ served[k].items[j] = r)
    /\ (Listing /\ served # <<>> /\ IsPage(served[Len(served)])) =>
        /\ pc = "get"
        /\ Len(reqs) = Len(served) + 1
        /\ (\A j \in 1..Len(served[Len(served)].items) :
                ~served[Len(served)].items[j].admin)
            => Len(repos) =
                Len(SelectSeq(ServedItems(SubSeq(served, 1, Len(served) - 1)),
                              IsAdmin))

C12_Witness ==
    /\ Listing
    /\ pc = "returned"
    /\ ret.kind = "return"
    /\ Len(served) = 3
    /\ Len(served[1].items) = 1
    /\ ~served[1].items[1].admin
    /\ Len(ret.value) = 1
    /\ ret.value[1].name = <<"u", "/", "r">>

\* the pages are requested one after the other, numbered from 1, 100
\* repositories a page; a page is requested only after the one before it was
\* seen with repositories on it, and none after a body that ends the loop
SequentialPages ==
    Listing =>
        /\ \A i \in 1..Len(reqs) :
            /\ reqs[i].method = "GET"
            /\ reqs[i].params.page = i
            /\ reqs[i].params.per_page = 100
        /\ Len(served) <= Len(reqs)
        /\ Len(reqs) <= Len(served) + 1
        /\ \A i \in 1..Len(served) : i < Len(reqs) <=> IsPage(served[i])
        /\ pc = "get" <=> Len(reqs) = Len(served) + 1

\* the statement of C13 as it stands: the pages are sequential and list()
\* ends exactly when the API has answered an empty page
C13_EndsOnlyOnEmptyPage ==
    /\ SequentialPages
    /\ Listing =>
        (pc = "returned" <=>
            (served # <<>> /\ served[Len(served)] = ListBody(<<>>)))

\* C13: list() of GitHubClient requests the pages one after the other, with
\* page numbers 1, 2, 3, ... and 100 repositories a page; page N + 1 is
\* requested only after page N was seen with repositories on it, and no page
\* after the first empty one.  list() returns exactly when the API has
\* answered an empty page (an empty list or an empty object); it ends without
\* returning, by an exception, exactly when the API has answered a body that
\* is not JSON or an object with members.
C13_Sequential ==
    /\ SequentialPages
    /\ Listing =>
        /\ (pc = "returned" /\ ret.kind = "return") <=>
            (served # <<>> /\ IsEmptyBody(served[Len(served)]))
        /\ (pc = "returned" /\ ret.kind = "raise") <=>
            (/\ served # <<>>
             /\ ~IsEmptyBody(served[Len(served)])
             /\ served[Len(served)].kind \in {"notjson", "object"})

C13_Witness ==
    /\ Listing
    /\ pc = "returned"
    /\ ret.kind = "return"
    /\ Len(served) = 3
    /\ reqs[3].params = [per_page |-> 100, page |-> 3]
    /\ IsPage(served[1]) /\ IsPage(served[2])
    /\ served[3] = ListBody(<<>>)

\* dotfile.load has ended
Loaded == pc = "returned" /\ call.client = "dotfile" /\ call.op = "load"

\* the section is one the claim calls valid: a known type and exactly the
\* parameters of its variant
ValidSection(c) ==
    /\ c.hasType
    /\ \/ c.type = "pensieve" /\ Keys(c.items) = {"host", "path", "agent"}
       \/ c.type = "github" /\ Keys(c.items) = {"user", "token"}

ValidDotfile(d) ==
    /\ d.kind = "map"
    /\ d.hasStores
    /\ \A i \in 1..Len(d.stores) : ValidSection(d.stores[i].config)

\* the text without a leading ssh://
WithoutScheme(host) ==
    IF StartsWith(host, SshScheme)
    THEN SubSeq(host, Len(SshScheme) + 1, Len(host)) ELSE host

\* C14: for a valid dotfile, load returns one client for each store entry, of
\* the variant its type names and with the fields of the YAML (the host of a
\* pensieve store with ssh:// in front exactly once); for a text that is not
\* YAML, a document without "stores" (an empty one too), a section without
\* "type", with an unknown type or with missing or extra parameters, load
\* raises exceptions.Error and returns no client.
C14_Load ==
    Loaded =>
        IF ValidDotfile(dotfile)
        THEN /\ ret.kind = "return"
             /\ Len(clients) = Len(dotfile.stores)
             /\ \A i \in 1..Len(clients) :
                LET c == dotfile.stores[i].config
                    k == clients[i]
                IN  /\ k.store = dotfile.stores[i].store
                    /\ k.type = c.type
                    /\ IF c.type = "pensieve"
                       THEN /\ k.client.host =
                                SshScheme \o WithoutScheme(Value(c.items, "host"))
                            /\ ~StartsWith(WithoutScheme(k.client.host), SshScheme)
                            /\ k.client.path = Value(c.items, "path")
                            /\ k.client.agent = Value(c.items, "agent")
                       ELSE /\ k.client.user = Value(c.items, "user")
                            /\ k.client.token = Value(c.items, "token")
        ELSE /\ ret.kind = "raise"
             /\ ret.exc = "Error"
             /\ clients = NoClients

\* main has run on a dotfile that does not load
LoadFailed ==
    /\ dotfile # NoDotfile
    /\ call.client # "dotfile"
    /\ ~ValidDotfile(dotfile)

\* C15: when the dotfile does not load, main ends before any command: no
\* operation of a client is invoked, no handler of a subcommand runs and the
\* cache file is not written.
C15_Halts ==
    LoadFailed =>
        /\ pc = "exited"
        /\ cli.cmd = "none"
        /\ cli.pending = NoCall
        /\ call = NoCall
        /\ calls = <<>>
        /\ procs = <<>>
        /\ reqs = <<>>
        /\ ~cache.written

C15_Witness ==
    /\ LoadFailed
    /\ dotfile.kind = "map"
    /\ dotfile.stores # <<>>
    /\ ret.exc = "Error"
    /\ pc = "exited"
    /\ printed # <<>>

\* C16: the process exits with code 0 when new, clone, list or cached has
\* completed, and with code 1, the message printed on stdout, when the loader
\* or an operation of a client raised an error of the kind exceptions.Error.
C16_ExitCodes ==
    pc = "exited" =>
        /\ (ret.kind = "raise" /\ ret.exc \in ErrorKinds) =>
            /\ exitCode = 1
            /\ printed # <<>>
            /\ Contains(printed[Len(printed)], ret.msg)
        /\ (cli.cmd \in {"new", "clone", "list", "cached"} /\ ret.kind = "return") =>
            exitCode = 0

C16_Witness ==
    /\ pc = "exited"
    /\ cli.cmd = "list"
    /\ Len(calls) = 2
    /\ ret.exc = "ClientError"
    /\ exitCode = 1
    /\ cache.written

\* the lists of records the cache holds for a store
CachedFor(c, store) ==
    {c.entries[i].repos : i \in {j \in 1..Len(c.entries) : c.entries[j].store = store}}

\* C17: when list has processed a store, the cache file maps the store to
\* exactly the records its list() returned, in place of the entry it had,
\* whatever --topic and --show-archived are, and the entries of the other
\* stores are as they were.
C17_CacheEntry ==
    [][(pc = "returned" /\ cli.cmd = "list" /\ ret.kind = "return") =>
        LET s == cli.todo[1][1]
        IN  /\ Cardinality({i \in 1..Len(cache'.entries) :
                                cache'.entries[i].store = s}) = 1
            /\ \A listed \in CachedFor(cache', s) :
                /\ Len(listed) = Len(ret.value)
                /\ \A j \in 1..Len(listed) :
                    /\ listed[j].name = ret.value[j].name
                    /\ listed[j].description = ret.value[j].description
                    /\ listed[j].topics = ret.value[j].topics
            /\ \A t \in {"old", "home", "github"} \ {s} :
                CachedFor(cache', t) = CachedFor(cache, t)]_vars

C17_Witness ==
    /\ pc = "exited"
    /\ cli.cmd = "list"
    /\ cli.topic = <<"a">>
    /\ exitCode = 0
    /\ Len(cache.entries) = 3
    /\ cache.entries[1].store = "old"
    /\ cache.entries[1].repos # <<>>
    /\ Len(cache.entries[2].repos) = 2
    /\ cache.entries[2].repos[2].topics = <<<<"archived">>>>
    /\ Len(printed) = 2

\* C18: no operation changes the fields of a client, and every request of
\* GitHubClient, to either endpoint of new and for every page of list, carries
\* the user and the token the client was made with.
C18_Immutable ==
    [][/\ pensieve' = pensieve
       /\ github' = github
       /\ \A i \in 1..Len(reqs') : reqs'[i].auth = <<github.user, github.token>>]_vars

C18_Witness ==
    /\ pc = "returned"
    /\ call.client = "github"
    /\ call.op = "list"
    /\ Len(reqs) = 3
    /\ \A i \in 1..3 : reqs[i].auth = <<<<"u">>, <<"token">>>>

\* C19: in the command new, when client.new raises, the message "New
\* repository ... created." is not printed and client.clone is not invoked;
\* when client.new returns, client.clone is invoked once, with the full_name
\* given to new.
C19_CloneAfterNew ==
    /\ [][(cli.cmd = "new" /\ pc = "returned" /\ call.op = "new") =>
            IF ret.kind = "raise"
            THEN /\ pc' = "exited"
                 /\ calls' = calls
                 /\ \A i \in 1..Len(printed') :
                        printed'[i] # <<"New repository \"", cli.store, ":">>
                                       \o call.name \o <<"\" created.">>
            ELSE /\ pc' = "cmd"
                 /\ cli'.pending.op = "clone"
                 /\ cli'.pending.client = call.client
                 /\ cli'.pending.name = call.name
                 /\ printed' = Append(printed,
                        <<"New repository \"", cli.store, ":">>
                        \o call.name \o <<"\" created.">>)]_vars
    /\ [][(cli.cmd = "new" /\ pc = "cmd") =>
            /\ call' = cli.pending
            /\ calls' = Append(calls, cli.pending)]_vars
    /\ [](cli.cmd = "new" =>
            /\ Len(calls) <= 2
            /\ Len(calls) >= 1 => calls[1].op = "new" /\ calls[1].name = cli.full_name
            /\ Len(calls) = 2 =>
                /\ calls[2].op = "clone"
                /\ calls[2].client = calls[1].client
                /\ calls[2].name = calls[1].name
            /\ (pc = "exited" /\ Len(calls) = 1) => ret.kind = "raise")

C19_Witness ==
    /\ cli.cmd = "new"
    /\ pc = "exited"
    /\ exitCode = 0
    /\ Len(calls) = 2
    /\ calls[1].client = "github"
    /\ calls[2].name = <<"u", "/", "r">>
    /\ printed = <<<<"New repository \"", "github", ":", "u", "/", "r",
                     "\" created.">>>>

\* C20: for every store of the configuration and every record the list
\* command cached for it, the name store:name that _cached_names makes is
\* accepted by parse_repository_locator, which gives back the store, its
\* client and the name of the record as full_name.
C20_RoundTrip ==
    (cli.cmd = "list" /\ cache.written) =>
        \A i \in 1..Len(cache.entries) :
            (\E k \in 1..Len(clients) : clients[k].store = cache.entries[i].store) =>
                LET names == CachedNames(<<cache.entries[i]>>)
                IN  \A j \in 1..Len(names) :
                        LET loc == ParseRepositoryLocator(names[j], clients)
                        IN  /\ loc.ok
                            /\ loc.store_name = cache.entries[i].store
                            /\ \E k \in 1..Len(clients) :
                                /\ clients[k].store = loc.store_name
                                /\ clients[k].type = loc.type
                            /\ loc.full_name = cache.entries[i].repos[j].name

====
